---- MODULE Spec2Model ----
(***************************************************************************)
(* Model of PixiTileGrid (src/src/PixiTileGrid.ts): the constructor's      *)
(* validation, the layer compilation of _initializeLayers, the row-major   *)
(* walk of _renderLayer and the texture resolution of _createTileSprite.   *)
(*                                                                         *)
(* An optional JavaScript value is modelled as a set with at most one      *)
(* element: Absent (undefined / null) is {}, a present value v is {v}.     *)
(***************************************************************************)
EXTENDS Integers, Sequences, FiniteSets

(* ------------------------------ bounds --------------------------------- *)

MaxLayers == 2

MaxRows == 2

MaxCells == 3

MaxDim == 2

(* ------------------------- optional values ----------------------------- *)

Absent == {}

Some(v) == {v}

The(m) == CHOOSE v \in m : TRUE

\* JavaScript's  m ?? d
OrElse(m, d) == IF m = Absent THEN d ELSE The(m)

SeqsUpTo(S, n) == UNION {[1..k -> S] : k \in 0..n}

\* A row of present cells, written as in the source: Row(<<1, 0, 2>>).
Row(cells) == Some([i \in DOMAIN cells |-> Some(cells[i])])

(* --------------------------- number to string -------------------------- *)

Digit(d) ==
    CASE d = 0 -> "0" [] d = 1 -> "1" [] d = 2 -> "2" [] d = 3 -> "3"
      [] d = 4 -> "4" [] d = 5 -> "5" [] d = 6 -> "6" [] d = 7 -> "7"
      [] d = 8 -> "8" [] d = 9 -> "9"

RECURSIVE Decimal(_)
Decimal(n) == IF n < 10 THEN Digit(n) ELSE Decimal(n \div 10) \o Digit(n % 10)

\* Number.prototype.toString() of an integer tile index.
toString(n) == IF n < 0 THEN "-" \o Decimal(-n) ELSE Decimal(n)

(* ------------------------------ inputs --------------------------------- *)

\* Tile indices of the generated grids: 0 is the empty tile.
TileIndices == {0, 1, 2}

\* Every tile index a configuration of the model may hold.
TileDomain == 0..7

CellValues == {Absent} \cup {Some(t) : t \in TileIndices}

\* Rows of at most c cells; a row may itself be absent.
RowsUpTo(c) == {Absent} \cup {Some(r) : r \in SeqsUpTo(CellValues, c)}

CellsIn(r) == IF r = Absent THEN 0 ELSE Len(The(r))

\* Grids of at most r rows holding at most c cells in all; rows may differ in length.
RECURSIVE GridsUpTo(_, _)
GridsUpTo(r, c) ==
    IF r = 0 THEN {<<>>}
    ELSE {<<>>} \cup
         UNION {{<<first>> \o rest : rest \in GridsUpTo(r - 1, c - CellsIn(first))} :
                first \in RowsUpTo(c)}

GridValues == {Absent} \cup {Some(g) : g \in GridsUpTo(MaxRows, MaxCells)}

\* A caller-supplied tileToIdTextureKey, as the function it computes; what it
\* returns is a string or null (Absent).
PrefixMapping(prefix) == [i \in TileDomain |-> Some(prefix \o toString(i))]

\* A mapping that returns null for tile index 1 and the empty string for 2.
DegenerateMapping ==
    [i \in TileDomain |->
        IF i = 1 THEN Absent
        ELSE IF i = 2 THEN Some("")
        ELSE Some("custom_" \o toString(i))]

MappingValues == {Absent, Some(PrefixMapping("custom_"))}

\* A sprite sheet: textures maps a key to a texture handle.
Sheet(keys) == [textures |-> [k \in keys |-> "tex:" \o k]]

FullSheet == Sheet({"1", "2", "3", "4", "custom_1", "custom_2"})

PartialSheet == Sheet({"1", "custom_2"})

\* A sheet with a texture stored under the key "null".
NullSheet == Sheet({"1", "null"})

DimValues == {Absent} \cup {Some(d) : d \in -1..MaxDim}

PositiveDims == {Some(d) : d \in 1..MaxDim}

ZIndexValues == {Absent, Some(-10), Some(0), Some(10)}

LayerNames == {"bg", "fg"}

Layer(name, zIndex, grid) == [name |-> name, zIndex |-> zIndex, data |-> grid]

Options(mapData, spriteSheet, width, height, mapping, chunk, margin) ==
    [mapData |-> mapData, spriteSheet |-> spriteSheet,
     tileWidth |-> width, tileHeight |-> height,
     tileToIdTextureKey |-> mapping,
     chunkSize |-> chunk, cullingMargin |-> margin]

OneTileGrid == Some(<<Row(<<1>>)>>)

RaggedGrid == Some(<<Row(<<1, 2>>), Absent, Some(<<Some(0), Absent, Some(2)>>)>>)

SevenGrid == Some(<<Row(<<7>>)>>)

LayerValues ==
    {Layer(n, z, d) : n \in LayerNames, z \in ZIndexValues, d \in {Absent, OneTileGrid}}

\* Configurations that exercise the validation of the constructor.
ValidationConfig(o) ==
    \E m \in {Absent, Some(<<>>), Some(<<Layer("bg", Absent, OneTileGrid)>>)},
       s \in {Absent, Some(FullSheet)},
       w \in DimValues, h \in DimValues :
        o = Options(m, s, w, h, Absent, Absent, Absent)

\* Valid configurations that vary the layer list.
LayerConfig(o) ==
    \E ls \in SeqsUpTo(LayerValues, MaxLayers) \ {<<>>} :
        o = Options(Some(ls), Some(FullSheet), Some(1), Some(2), Absent, Absent, Absent)

\* Valid configurations that vary the grid of a single layer.
GridConfig(o) ==
    \E g \in GridValues :
        o = Options(Some(<<Layer("bg", Absent, g)>>), Some(PartialSheet),
                    Some(1), Some(2), Absent, Absent, Absent)

\* Valid configurations that vary the cell size, the sprite sheet, the mapping
\* and the reserved fields.
ResolveConfig(o) ==
    \E g \in {OneTileGrid, RaggedGrid, SevenGrid}, s \in {FullSheet, PartialSheet},
       w \in PositiveDims, h \in PositiveDims, f \in MappingValues,
       c \in {Absent, Some(0), Some(32)}, m \in {Absent, Some(5)} :
        o = Options(Some(<<Layer("fg", Some(10), g)>>), Some(s), w, h, f, c, m)

\* Valid configurations whose mapping returns null and the empty string.
DegenerateConfig(o) ==
    \E g \in {OneTileGrid, RaggedGrid}, s \in {FullSheet, NullSheet} :
        o = Options(Some(<<Layer("fg", Some(10), g)>>), Some(s), Some(1), Some(2),
                    Some(DegenerateMapping), Absent, Absent)

\* The configurations of the test suite (src/tests/PixiTileGrid.test.ts).
SortExample ==
    Options(Some(<<Layer("fg", Some(10), OneTileGrid),
                   Layer("bg", Some(-10), Some(<<Row(<<2>>)>>)),
                   Layer("mid", Some(0), Some(<<Row(<<3>>)>>))>>),
            Some(FullSheet), Some(32), Some(32), Absent, Absent, Absent)

SkipExample ==
    Options(Some(<<Layer("test", Absent, Some(<<Row(<<1, 0, 2>>), Row(<<0, 3, 0>>)>>))>>),
            Some(FullSheet), Some(32), Some(32), Absent, Absent, Absent)

PositionExample ==
    Options(Some(<<Layer("test", Absent, Some(<<Row(<<1, 2>>), Row(<<3, 4>>)>>))>>),
            Some(FullSheet), Some(32), Some(32), Absent, Absent, Absent)

\* Three layers, one of them without zIndex and tied with an explicit 0.
TieExample ==
    Options(Some(<<Layer("fg", Absent, OneTileGrid),
                   Layer("bg", Some(-10), Absent),
                   Layer("mid", Some(0), OneTileGrid)>>),
            Some(FullSheet), Some(1), Some(2), Absent, Absent, Absent)

SizeExample ==
    Options(Some(<<Layer("test", Absent, OneTileGrid)>>),
            Some(FullSheet), Some(64), Some(48), Absent, Absent, Absent)

\* Two layers holding tile index 5, for which the sheet has no texture.
MissingExample ==
    Options(Some(<<Layer("fg", Some(10), Some(<<Row(<<5>>), Row(<<3, 5, 4>>)>>)),
                   Layer("bg", Absent, Some(<<Row(<<1, 5, 2>>)>>))>>),
            Some(FullSheet), Some(32), Some(32), Absent, Absent, Absent)

\* Three layers, the middle one of the draw order with a grid of zero rows.
NoDataExample ==
    Options(Some(<<Layer("fg", Some(10), Some(<<Row(<<3>>)>>)),
                   Layer("mid", Some(0), Some(<<>>)),
                   Layer("bg", Some(-10), Some(<<Row(<<1, 2>>)>>))>>),
            Some(FullSheet), Some(32), Some(32), Absent, Absent, Absent)

ExampleConfigs ==
    {SortExample, TieExample, SkipExample, PositionExample, SizeExample, MissingExample,
     NoDataExample}

(* ------------------------------- state --------------------------------- *)

VARIABLES
    options,           \* the constructor argument
    pc,                \* position in the constructor
    error,             \* message of the thrown Error, Absent if none
    tileWidth,         \* this.tileWidth
    tileHeight,        \* this.tileHeight
    _chunkSize,        \* this._chunkSize
    _cullingMargin,    \* this._cullingMargin
    _layers,           \* this._layers: layer name -> container
    containers,        \* the layer containers created so far, by identity
    children,          \* this.children: the root's child list
    sortableChildren,  \* this.sortableChildren
    sortedLayers,      \* local of _initializeLayers
    layerIdx,          \* position of the for-of loop in sortedLayers
    row,               \* loop variable of _renderLayer
    col,               \* loop variable of _renderLayer
    warnings,          \* console.warn calls, in order
    calls              \* invocations of tileToIdTextureKey and texture lookups

vars == <<options, pc, error, tileWidth, tileHeight, _chunkSize, _cullingMargin,
          _layers, containers, children, sortableChildren, sortedLayers,
          layerIdx, row, col, warnings, calls>>

fieldVars == <<tileWidth, tileHeight, _chunkSize, _cullingMargin>>

treeVars == <<_layers, containers, children, sortableChildren>>

loopVars == <<sortedLayers, layerIdx, row, col>>

logVars == <<warnings, calls>>

Init ==
    /\ \/ ValidationConfig(options)
       \/ LayerConfig(options)
       \/ GridConfig(options)
       \/ ResolveConfig(options)
       \/ DegenerateConfig(options)
       \/ options \in ExampleConfigs
    /\ pc = "validate"
    /\ error = Absent
    /\ tileWidth = Absent
    /\ tileHeight = Absent
    /\ _chunkSize = Absent
    /\ _cullingMargin = Absent
    /\ _layers = [n \in {} |-> 0]
    /\ containers = <<>>
    /\ children = <<>>
    /\ sortableChildren = FALSE
    /\ sortedLayers = <<>>
    /\ layerIdx = 0
    /\ row = 0
    /\ col = 0
    /\ warnings = <<>>
    /\ calls = <<>>

(* ----------------------------- validation ------------------------------ *)

NoError == Absent

\* Variant: only undefined and negative sizes rejected, zero accepted.
NotPositive_ZeroAccepted(m) == IF m = Absent THEN TRUE ELSE The(m) < 0

\* !x || x <= 0  for an optional number
NotPositive(m) == IF m = Absent THEN TRUE ELSE The(m) = 0 \/ The(m) <= 0

\* Variant: tileHeight checked before tileWidth.
ValidationError_HeightFirst(o) ==
    IF o.mapData = Absent \/ Len(The(o.mapData)) = 0
    THEN Some("PixiTileGrid: mapData is required and must contain at least one layer")
    ELSE IF o.spriteSheet = Absent
    THEN Some("PixiTileGrid: spriteSheet is required")
    ELSE IF NotPositive(o.tileHeight)
    THEN Some("tileHeight must be positive")
    ELSE IF NotPositive(o.tileWidth)
    THEN Some("tileWidth must be positive")
    ELSE NoError

\* Variant: the length of mapData is not checked.
ValidationError_EmptyAccepted(o) ==
    IF o.mapData = Absent
    THEN Some("PixiTileGrid: mapData is required and must contain at least one layer")
    ELSE IF o.spriteSheet = Absent
    THEN Some("PixiTileGrid: spriteSheet is required")
    ELSE IF NotPositive(o.tileWidth)
    THEN Some("tileWidth must be positive")
    ELSE IF NotPositive(o.tileHeight)
    THEN Some("tileHeight must be positive")
    ELSE NoError

\* Variant: spriteSheet checked after the cell sizes.
ValidationError_SheetLast(o) ==
    IF o.mapData = Absent \/ Len(The(o.mapData)) = 0
    THEN Some("PixiTileGrid: mapData is required and must contain at least one layer")
    ELSE IF NotPositive(o.tileWidth)
    THEN Some("tileWidth must be positive")
    ELSE IF NotPositive(o.tileHeight)
    THEN Some("tileHeight must be positive")
    ELSE IF o.spriteSheet = Absent
    THEN Some("PixiTileGrid: spriteSheet is required")
    ELSE NoError

\* The checks of the constructor in their order; the message thrown, if any.
ValidationError(o) ==
    IF o.mapData = Absent \/ Len(The(o.mapData)) = 0
    THEN Some("PixiTileGrid: mapData is required and must contain at least one layer")
    ELSE IF o.spriteSheet = Absent
    THEN Some("PixiTileGrid: spriteSheet is required")
    ELSE IF NotPositive(o.tileWidth)
    THEN Some("tileWidth must be positive")
    ELSE IF NotPositive(o.tileHeight)
    THEN Some("tileHeight must be positive")
    ELSE NoError

\* Variant: the failure is also reported on the console before it is thrown.
Throw_Logged ==
    /\ pc = "validate"
    /\ ValidationError(options) # NoError
    /\ error' = ValidationError(options)
    /\ warnings' = Append(warnings, [message |-> The(ValidationError(options)), cell |-> <<>>])
    /\ pc' = "thrown"
    /\ UNCHANGED <<options, fieldVars, treeVars, loopVars, calls>>

Throw ==
    /\ pc = "validate"
    /\ ValidationError(options) # NoError
    /\ error' = ValidationError(options)
    /\ pc' = "thrown"
    /\ UNCHANGED <<options, fieldVars, treeVars, loopVars, logVars>>

\* Variant: the defaults taken with || so that a supplied 0 is replaced too.
StoreOptions_FalsyDefault ==
    /\ pc = "validate"
    /\ ValidationError(options) = NoError
    /\ tileWidth' = options.tileWidth
    /\ tileHeight' = options.tileHeight
    /\ _chunkSize' = IF options.chunkSize \in {Absent, Some(0)}
                     THEN Some(16) ELSE options.chunkSize
    /\ _cullingMargin' = IF options.cullingMargin \in {Absent, Some(0)}
                         THEN Some(2) ELSE options.cullingMargin
    /\ pc' = "sort"
    /\ UNCHANGED <<options, error, treeVars, loopVars, logVars>>

StoreOptions ==
    /\ pc = "validate"
    /\ ValidationError(options) = NoError
    /\ tileWidth' = options.tileWidth
    /\ tileHeight' = options.tileHeight
    /\ _chunkSize' = Some(OrElse(options.chunkSize, 16))
    /\ _cullingMargin' = Some(OrElse(options.cullingMargin, 2))
    /\ pc' = "sort"
    /\ UNCHANGED <<options, error, treeVars, loopVars, logVars>>

(* --------------------------- _initializeLayers ------------------------- *)

\* The comparator of the sort:  (a.zIndex ?? 0) - (b.zIndex ?? 0)
Compare(a, b) == OrElse(a.zIndex, 0) - OrElse(b.zIndex, 0)

\* Variant: x placed before the elements it compares equal to (not stable).
RECURSIVE InsertSorted_Unstable(_, _)
InsertSorted_Unstable(s, x) ==
    IF s = <<>> THEN <<x>>
    ELSE IF OrElse(s[Len(s)].zIndex, 0) - OrElse(x.zIndex, 0) >= 0
         THEN Append(InsertSorted_Unstable(SubSeq(s, 1, Len(s) - 1), x), s[Len(s)])
         ELSE Append(s, x)

\* x placed behind every element that does not compare greater than it.
RECURSIVE InsertSorted(_, _)
InsertSorted(s, x) ==
    IF s = <<>> THEN <<x>>
    ELSE IF Compare(s[Len(s)], x) > 0
         THEN Append(InsertSorted(SubSeq(s, 1, Len(s) - 1), x), s[Len(s)])
         ELSE Append(s, x)

\* [...mapData].sort(comparator): Array.prototype.sort is stable.
RECURSIVE SortedCopy(_)
SortedCopy(s) ==
    IF s = <<>> THEN <<>>
    ELSE InsertSorted(SortedCopy(SubSeq(s, 1, Len(s) - 1)), s[Len(s)])

\* Variant: an existing entry is kept (first write wins).
MapSet_FirstWins(m, k, v) ==
    [n \in DOMAIN m \cup {k} |-> IF n \in DOMAIN m THEN m[n] ELSE v]

\* Map.prototype.set
MapSet(m, k, v) == [n \in DOMAIN m \cup {k} |-> IF n = k THEN v ELSE m[n]]

\* Variant: the child is put at the front of the list.
AddChild_Front(kids, child) == <<child>> \o kids

\* Container.addChild
AddChild(kids, child) == Append(kids, child)

\* Variant: the container keeps the zIndex 0 of a new PIXI.Container.
NewContainer_ZIndexUnset(def) ==
    [label |-> "Layer: " \o def.name,
     zIndex |-> 0,
     children |-> <<>>,
     src |-> def]

\* new PIXI.Container() with its label and zIndex; src records the layer
\* definition the container is built from.
NewContainer(layerDef) ==
    [label |-> "Layer: " \o layerDef.name,
     zIndex |-> OrElse(layerDef.zIndex, 0),
     children |-> <<>>,
     src |-> layerDef]

layerDef == sortedLayers[layerIdx]

\* The container of the current iteration.
layerContainer == Len(containers)

\* Variant: the root is marked sortable before the loop over the layers.
SortLayers_SortableFirst ==
    /\ pc = "sort"
    /\ sortedLayers' = SortedCopy(The(options.mapData))
    /\ layerIdx' = 1
    /\ sortableChildren' = TRUE
    /\ pc' = "loop"
    /\ UNCHANGED <<options, error, fieldVars, _layers, containers, children, row, col,
                   logVars>>

\* Variant: mapData itself is sorted, without the copy.
SortLayers_InPlace ==
    /\ pc = "sort"
    /\ options' = [options EXCEPT !.mapData = Some(SortedCopy(The(options.mapData)))]
    /\ sortedLayers' = SortedCopy(The(options.mapData))
    /\ layerIdx' = 1
    /\ pc' = "loop"
    /\ UNCHANGED <<error, fieldVars, treeVars, row, col, logVars>>

SortLayers ==
    /\ pc = "sort"
    /\ sortedLayers' = SortedCopy(The(options.mapData))
    /\ layerIdx' = 1
    /\ pc' = "loop"
    /\ UNCHANGED <<options, error, fieldVars, treeVars, row, col, logVars>>

CreateContainer ==
    /\ pc = "loop"
    /\ layerIdx <= Len(sortedLayers)
    /\ containers' = Append(containers, NewContainer(layerDef))
    /\ pc' = "register"
    /\ UNCHANGED <<options, error, fieldVars, _layers, children, sortableChildren,
                   loopVars, logVars>>

\* Variant: the container is added to the root when it is registered, before
\* it is rendered.
RegisterLayer_AttachFirst ==
    /\ pc = "register"
    /\ _layers' = MapSet(_layers, layerDef.name, layerContainer)
    /\ children' = AddChild(children, layerContainer)
    /\ pc' = "render"
    /\ UNCHANGED <<options, error, fieldVars, containers, sortableChildren,
                   loopVars, logVars>>

RegisterLayer ==
    /\ pc = "register"
    /\ _layers' = MapSet(_layers, layerDef.name, layerContainer)
    /\ pc' = "render"
    /\ UNCHANGED <<options, error, fieldVars, containers, children, sortableChildren,
                   loopVars, logVars>>

\* Variant: a container without sprites is not attached.
AttachLayer_SkipEmpty ==
    /\ pc = "attach"
    /\ children' = IF containers[Len(containers)].children = <<>>
                   THEN children
                   ELSE Append(children, Len(containers))
    /\ layerIdx' = layerIdx + 1
    /\ pc' = "loop"
    /\ UNCHANGED <<options, error, fieldVars, _layers, containers, sortableChildren,
                   sortedLayers, row, col, logVars>>

\* Variant: the container is added to the root twice.
AttachLayer_Twice ==
    /\ pc = "attach"
    /\ children' = AddChild(AddChild(children, layerContainer), layerContainer)
    /\ layerIdx' = layerIdx + 1
    /\ pc' = "loop"
    /\ UNCHANGED <<options, error, fieldVars, _layers, containers, sortableChildren,
                   sortedLayers, row, col, logVars>>

AttachLayer ==
    /\ pc = "attach"
    /\ children' = AddChild(children, layerContainer)
    /\ layerIdx' = layerIdx + 1
    /\ pc' = "loop"
    /\ UNCHANGED <<options, error, fieldVars, _layers, containers, sortableChildren,
                   sortedLayers, row, col, logVars>>

SetSortable ==
    /\ pc = "loop"
    /\ layerIdx > Len(sortedLayers)
    /\ sortableChildren' = TRUE
    /\ pc' = "done"
    /\ UNCHANGED <<options, error, fieldVars, _layers, containers, children,
                   loopVars, logVars>>

(* --------------------------- _createTileSprite ------------------------- *)

\* Variant: the custom mapping is ignored.
TextureKey_DefaultOnly(tileIndex) == Some(toString(tileIndex))

\* The key computed for a tile index: what the custom mapping returns when
\* configured (a string or null), tileIndex.toString() otherwise.
TextureKey(tileIndex) ==
    IF options.tileToIdTextureKey # Absent
    THEN The(options.tileToIdTextureKey)[tileIndex]
    ELSE Some(toString(tileIndex))

\* The property key a value is converted to in textures[value]: null reads
\* the property "null".
ToPropertyKey(value) == IF value = Absent THEN "null" ELSE The(value)

\* ${value} in a template literal: null is written as "null".
Interpolated(value) == IF value = Absent THEN "null" ELSE The(value)

\* Variant: a key without texture resolves to a placeholder texture.
Texture_Fallback(textureKey) ==
    LET textures == The(options.spriteSheet).textures
    IN  IF ToPropertyKey(textureKey) \in DOMAIN textures
        THEN Some(textures[ToPropertyKey(textureKey)])
        ELSE Some("tex:")

\* Variant: a null or empty key is taken as "no texture" without a lookup.
Texture_NullIsNone(textureKey) ==
    LET textures == The(options.spriteSheet).textures
    IN  IF textureKey \in {Absent, Some("")} THEN Absent
        ELSE IF ToPropertyKey(textureKey) \in DOMAIN textures
        THEN Some(textures[ToPropertyKey(textureKey)])
        ELSE Absent

\* spriteSheet.textures[textureKey]
Texture(textureKey) ==
    LET textures == The(options.spriteSheet).textures
    IN  IF ToPropertyKey(textureKey) \in DOMAIN textures
        THEN Some(textures[ToPropertyKey(textureKey)])
        ELSE Absent

\* Variant: row and column exchanged in the position.
NewSprite_Swapped(texture, tileIndex, c, r) ==
    [texture |-> texture,
     x |-> r * The(tileWidth),
     y |-> c * The(tileHeight),
     width |-> The(tileWidth),
     height |-> The(tileHeight),
     cell |-> <<r, c>>,
     tileIndex |-> tileIndex]

\* Variant: width and height exchanged in the size.
NewSprite_SizeSwapped(texture, tileIndex, c, r) ==
    [texture |-> texture,
     x |-> c * The(tileWidth),
     y |-> r * The(tileHeight),
     width |-> The(tileHeight),
     height |-> The(tileWidth),
     cell |-> <<r, c>>,
     tileIndex |-> tileIndex]

\* new PIXI.Sprite(texture) with its position and size; cell and tileIndex
\* record the arguments of the call that made it.
NewSprite(texture, tileIndex, c, r) ==
    [texture |-> texture,
     x |-> c * The(tileWidth),
     y |-> r * The(tileHeight),
     width |-> The(tileWidth),
     height |-> The(tileHeight),
     cell |-> <<r, c>>,
     tileIndex |-> tileIndex]

\* The calls _createTileSprite makes for one cell, in order.
CallsFor(tileIndex, where) ==
    (IF options.tileToIdTextureKey # Absent
     THEN <<[fn |-> "tileToIdTextureKey", tileIndex |-> tileIndex, cell |-> where]>>
     ELSE <<>>)
    \o <<[fn |-> "textures", key |-> TextureKey(tileIndex), cell |-> where]>>

MissingTextureWarning(tileIndex, where) ==
    [message |-> "PixiTileGrid: Texture not found for key \""
                    \o Interpolated(TextureKey(tileIndex))
                    \o "\" (tile index: " \o toString(tileIndex) \o ")",
     cell |-> where]

(* ------------------------------ _renderLayer --------------------------- *)

\* !data || data.length === 0
NoTileData(d) == IF d = Absent THEN TRUE ELSE Len(The(d)) = 0

NoTileDataWarning(def, where) ==
    [message |-> "PixiTileGrid: Layer \"" \o def.name \o "\" has no tile data",
     cell |-> where]

\* Variant: only a missing cell is skipped, 0 is resolved like any index.
IsEmptyTile_ZeroResolved(cell) == cell = Absent

\* tileIndex === 0 || tileIndex === undefined
IsEmptyTile(cell) == cell = Some(0) \/ cell = Absent

data == The(layerDef.data)

rows == Len(data)

rowData == data[row + 1]

\* Variant: every row is walked with the length of the first row.
cols_FirstRow == IF data[1] = Absent THEN 0 ELSE Len(The(data[1]))

\* Variant: at most chunkSize columns of a row are walked.
cols_Chunked ==
    IF Len(The(rowData)) < The(_chunkSize) THEN Len(The(rowData)) ELSE The(_chunkSize)

cols == Len(The(rowData))

\* rowData[col]: reading past the end of an array yields undefined
tileIndex == IF col < Len(The(rowData)) THEN The(rowData)[col + 1] ELSE Absent

here == <<layerIdx, row, col>>

\* Variant: a layer without tile data is not attached to the root.
WarnNoTileData_Detached ==
    /\ pc = "render"
    /\ NoTileData(layerDef.data)
    /\ warnings' = Append(warnings, NoTileDataWarning(layerDef, <<layerIdx>>))
    /\ layerIdx' = layerIdx + 1
    /\ pc' = "loop"
    /\ UNCHANGED <<options, error, fieldVars, treeVars, sortedLayers, row, col, calls>>

WarnNoTileData ==
    /\ pc = "render"
    /\ NoTileData(layerDef.data)
    /\ warnings' = Append(warnings, NoTileDataWarning(layerDef, <<layerIdx>>))
    /\ pc' = "attach"
    /\ UNCHANGED <<options, error, fieldVars, treeVars, loopVars, calls>>

BeginRows ==
    /\ pc = "render"
    /\ ~NoTileData(layerDef.data)
    /\ row' = 0
    /\ pc' = "row"
    /\ UNCHANGED <<options, error, fieldVars, treeVars, sortedLayers, layerIdx, col,
                   logVars>>

\* Variant: an absent row ends the walk of the layer.
SkipRow_Break ==
    /\ pc = "row"
    /\ row < rows
    /\ rowData = Absent
    /\ pc' = "attach"
    /\ UNCHANGED <<options, error, fieldVars, treeVars, loopVars, logVars>>

SkipRow ==
    /\ pc = "row"
    /\ row < rows
    /\ rowData = Absent
    /\ row' = row + 1
    /\ UNCHANGED <<options, pc, error, fieldVars, treeVars, sortedLayers, layerIdx, col,
                   logVars>>

BeginCols ==
    /\ pc = "row"
    /\ row < rows
    /\ rowData # Absent
    /\ col' = 0
    /\ pc' = "col"
    /\ UNCHANGED <<options, error, fieldVars, treeVars, sortedLayers, layerIdx, row,
                   logVars>>

EndRows ==
    /\ pc = "row"
    /\ row >= rows
    /\ pc' = "attach"
    /\ UNCHANGED <<options, error, fieldVars, treeVars, loopVars, logVars>>

\* Variant: a hole in a row is skipped with a diagnostic.
SkipTile_WarnHole ==
    /\ pc = "col"
    /\ col < cols
    /\ IsEmptyTile(tileIndex)
    /\ warnings' = IF tileIndex = Absent
                   THEN Append(warnings, [message |-> "PixiTileGrid: hole", cell |-> here])
                   ELSE warnings
    /\ col' = col + 1
    /\ UNCHANGED <<options, pc, error, fieldVars, treeVars, sortedLayers, layerIdx, row,
                   calls>>

SkipTile ==
    /\ pc = "col"
    /\ col < cols
    /\ IsEmptyTile(tileIndex)
    /\ col' = col + 1
    /\ UNCHANGED <<options, pc, error, fieldVars, treeVars, sortedLayers, layerIdx, row,
                   logVars>>

AddSprite ==
    /\ pc = "col"
    /\ col < cols
    /\ ~IsEmptyTile(tileIndex)
    /\ Texture(TextureKey(The(tileIndex))) # Absent
    /\ containers' =
         [containers EXCEPT ![layerContainer].children =
            AddChild(@, NewSprite(The(Texture(TextureKey(The(tileIndex)))),
                                  The(tileIndex), col, row))]
    /\ calls' = calls \o CallsFor(The(tileIndex), here)
    /\ col' = col + 1
    /\ UNCHANGED <<options, pc, error, fieldVars, _layers, children, sortableChildren,
                   sortedLayers, layerIdx, row, warnings>>

\* Variant: a missing texture abandons the rest of the row.
WarnMissingTexture_Break ==
    /\ pc = "col"
    /\ col < cols
    /\ ~IsEmptyTile(tileIndex)
    /\ Texture(TextureKey(The(tileIndex))) = Absent
    /\ warnings' = Append(warnings, MissingTextureWarning(The(tileIndex), here))
    /\ calls' = calls \o CallsFor(The(tileIndex), here)
    /\ col' = cols
    /\ UNCHANGED <<options, pc, error, fieldVars, treeVars, sortedLayers, layerIdx, row>>

\* Variant: a key without texture is reported once, not once per cell.
WarnMissingTexture_Once ==
    /\ pc = "col"
    /\ col < cols
    /\ ~IsEmptyTile(tileIndex)
    /\ Texture(TextureKey(The(tileIndex))) = Absent
    /\ warnings' =
         IF \E i \in DOMAIN warnings :
                warnings[i].message = MissingTextureWarning(The(tileIndex), here).message
         THEN warnings
         ELSE Append(warnings, MissingTextureWarning(The(tileIndex), here))
    /\ calls' = calls \o CallsFor(The(tileIndex), here)
    /\ col' = col + 1
    /\ UNCHANGED <<options, pc, error, fieldVars, treeVars, sortedLayers, layerIdx, row>>

\* Variant: a placeholder texture is stored in the sheet under a missed key.
WarnMissingTexture_CacheMiss ==
    /\ pc = "col"
    /\ col < cols
    /\ ~IsEmptyTile(tileIndex)
    /\ Texture(TextureKey(The(tileIndex))) = Absent
    /\ warnings' = Append(warnings, MissingTextureWarning(The(tileIndex), here))
    /\ calls' = calls \o CallsFor(The(tileIndex), here)
    /\ options' =
         [options EXCEPT !.spriteSheet =
            LET textures == The(options.spriteSheet).textures
                missed == ToPropertyKey(TextureKey(The(tileIndex)))
            IN  Some([textures |->
                        [k \in DOMAIN textures \cup {missed} |->
                            IF k \in DOMAIN textures THEN textures[k] ELSE "tex:"]])]
    /\ col' = col + 1
    /\ UNCHANGED <<pc, error, fieldVars, treeVars, sortedLayers, layerIdx, row>>

WarnMissingTexture ==
    /\ pc = "col"
    /\ col < cols
    /\ ~IsEmptyTile(tileIndex)
    /\ Texture(TextureKey(The(tileIndex))) = Absent
    /\ warnings' = Append(warnings, MissingTextureWarning(The(tileIndex), here))
    /\ calls' = calls \o CallsFor(The(tileIndex), here)
    /\ col' = col + 1
    /\ UNCHANGED <<options, pc, error, fieldVars, treeVars, sortedLayers, layerIdx, row>>

\* Variant: _renderLayer returns at the end of the first row that has cells.
EndCols_Return ==
    /\ pc = "col"
    /\ col >= cols
    /\ pc' = "attach"
    /\ UNCHANGED <<options, error, fieldVars, treeVars, loopVars, logVars>>

EndCols ==
    /\ pc = "col"
    /\ col >= cols
    /\ row' = row + 1
    /\ pc' = "row"
    /\ UNCHANGED <<options, error, fieldVars, treeVars, sortedLayers, layerIdx, col,
                   logVars>>

(* ---------------------------- specification ---------------------------- *)

Next ==
    \/ Throw
    \/ StoreOptions
    \/ SortLayers
    \/ CreateContainer
    \/ RegisterLayer
    \/ WarnNoTileData
    \/ BeginRows
    \/ SkipRow
    \/ BeginCols
    \/ EndRows
    \/ SkipTile
    \/ AddSprite
    \/ WarnMissingTexture
    \/ EndCols
    \/ AttachLayer
    \/ SetSortable

Spec == Init /\ [][Next]_vars

\* The constructor is synchronous: once called it runs until it returns or throws.
FairSpec == Spec /\ WF_vars(Next)

(* ------------------------- validation properties ----------------------- *)

\* The fatal rules in their documented order, and whether a configuration
\* violates each of them.
RuleViolated(o, rule) ==
    CASE rule = 1 -> o.mapData = Absent \/ The(o.mapData) = <<>>
      [] rule = 2 -> o.spriteSheet = Absent
      [] rule = 3 -> o.tileWidth = Absent \/ The(o.tileWidth) <= 0
      [] rule = 4 -> o.tileHeight = Absent \/ The(o.tileHeight) <= 0

ViolatedRules(o) == {rule \in 1..4 : RuleViolated(o, rule)}

RuleMessage(rule) ==
    CASE rule = 1 -> "PixiTileGrid: mapData is required and must contain at least one layer"
      [] rule = 2 -> "PixiTileGrid: spriteSheet is required"
      [] rule = 3 -> "tileWidth must be positive"
      [] rule = 4 -> "tileHeight must be positive"

FirstViolated(o) == CHOOSE rule \in ViolatedRules(o) : \A other \in ViolatedRules(o) : rule <= other

Validated == pc # "validate"

\* C1: whatever combination of the fatal rules a configuration violates, the
\* error thrown is that of the earliest violated rule in the order mapData,
\* spriteSheet, tileWidth, tileHeight.
C1_FirstViolatedRuleWins ==
    (Validated /\ ViolatedRules(options) # {}) =>
        /\ pc = "thrown"
        /\ error = Some(RuleMessage(FirstViolated(options)))

C1_Witness ==
    /\ pc = "thrown"
    /\ ViolatedRules(options) = {2, 3, 4}
    /\ error = Some(RuleMessage(2))

NoLayers(o) == o.mapData = Absent \/ Len(The(o.mapData)) = 0

C3_AsStated ==
    (Validated /\ ~NoLayers(options) /\ options.spriteSheet = Absent) =>
        /\ pc = "thrown"
        /\ error = Some("spriteSheet is required")

\* C3: a non-empty layer list with an absent texture source fails with the
\* message "PixiTileGrid: spriteSheet is required" (the stated text behind
\* the prefix "PixiTileGrid: ").
C3_SpriteSheetRequired ==
    (Validated /\ ~NoLayers(options) /\ options.spriteSheet = Absent) =>
        /\ pc = "thrown"
        /\ error = Some("PixiTileGrid: spriteSheet is required")

C3_Witness ==
    /\ pc = "thrown"
    /\ ~NoLayers(options)
    /\ options.spriteSheet = Absent
    /\ options.tileWidth = Some(-1)
    /\ error = Some("PixiTileGrid: spriteSheet is required")

AbsentZeroOrNegative(m) == m = Absent \/ The(m) = 0 \/ The(m) < 0

StrictlyPositive(m) == m # Absent /\ The(m) > 0

\* C4: with a valid layer list and texture source, an absent, zero or negative
\* tileWidth fails with "tileWidth must be positive"; with a valid tileWidth an
\* absent, zero or negative tileHeight fails with "tileHeight must be
\* positive"; strictly positive sizes raise neither error.
C4_CellSizeMustBePositive ==
    (Validated /\ ~NoLayers(options) /\ options.spriteSheet # Absent) =>
        /\ AbsentZeroOrNegative(options.tileWidth) =>
              pc = "thrown" /\ error = Some("tileWidth must be positive")
        /\ (StrictlyPositive(options.tileWidth)
              /\ AbsentZeroOrNegative(options.tileHeight)) =>
              pc = "thrown" /\ error = Some("tileHeight must be positive")
        /\ (StrictlyPositive(options.tileWidth) /\ StrictlyPositive(options.tileHeight)) =>
              pc # "thrown" /\ error = Absent

C4_Witness ==
    /\ pc = "thrown"
    /\ ~NoLayers(options)
    /\ options.spriteSheet # Absent
    /\ options.tileWidth = Some(MaxDim)
    /\ options.tileHeight = Some(0)
    /\ error = Some("tileHeight must be positive")

NothingBuilt ==
    /\ containers = <<>>
    /\ children = <<>>
    /\ DOMAIN _layers = {}
    /\ calls = <<>>
    /\ warnings = <<>>

\* C5: a fatal validation failure is detected before any build work: for a
\* configuration that violates a fatal rule, and in every state that ends in
\* the thrown error, no container exists or is attached, the name lookup is
\* empty, neither the mapping function nor the texture lookup has been
\* invoked, and no diagnostic has been emitted.
C5_NothingBuiltOnFailure ==
    (ViolatedRules(options) # {} \/ pc = "thrown" \/ error # Absent) =>
        /\ NothingBuilt
        /\ ~sortableChildren
        /\ pc \in {"validate", "thrown"}

C5_Witness ==
    /\ pc = "thrown"
    /\ ViolatedRules(options) = {4}
    /\ NothingBuilt

(* --------------------------- layer properties -------------------------- *)

\* The root's children as containers, in child order.
RootContainers == [i \in DOMAIN children |-> containers[children[i]]]

DrawOrder(def) == IF def.zIndex = Absent THEN 0 ELSE The(def.zIndex)

Injections(n) == {p \in [1..n -> 1..n] : \A i, j \in 1..n : p[i] = p[j] => i = j}

\* kids is mapData reordered by ascending draw order, ties in input order.
IsStableOrderOf(kids, mapData) ==
    /\ Len(kids) = Len(mapData)
    /\ \E p \in Injections(Len(mapData)) :
          /\ \A i \in DOMAIN kids : kids[i].src = mapData[p[i]]
          /\ \A i, j \in DOMAIN kids :
                i < j => \/ DrawOrder(mapData[p[i]]) < DrawOrder(mapData[p[j]])
                         \/ /\ DrawOrder(mapData[p[i]]) = DrawOrder(mapData[p[j]])
                            /\ p[i] < p[j]

Labels(kids) == [i \in DOMAIN kids |-> kids[i].label]

\* C6: after a successful construction the root's children are ordered by
\* ascending drawOrder, a missing drawOrder counting as 0, and layers of equal
\* drawOrder keep their input order; [fg:10, bg:-10, mid:0] gives [bg, mid, fg].
C6_StableDrawOrder ==
    pc = "done" =>
        /\ IsStableOrderOf(RootContainers, The(options.mapData))
        /\ options = SortExample =>
              Labels(RootContainers) = <<"Layer: bg", "Layer: mid", "Layer: fg">>

C6_Witness ==
    /\ pc = "done"
    /\ options = TieExample
    /\ Labels(RootContainers) = <<"Layer: bg", "Layer: fg", "Layer: mid">>

\* C7: a successful construction produces exactly one container per input
\* layer definition: the root has as many children as the configuration has
\* layers, all distinct, also when grids are absent or names collide.
C7_OneContainerPerLayer ==
    pc = "done" =>
        /\ Len(children) = Len(The(options.mapData))
        /\ Len(containers) = Len(The(options.mapData))
        /\ \A i, j \in DOMAIN children : children[i] = children[j] => i = j

C7_Witness ==
    /\ pc = "done"
    /\ Len(children) = 2
    /\ RootContainers[1].src.name = RootContainers[2].src.name
    /\ RootContainers[1].src.data = Absent
    /\ RootContainers[2].src.data # Absent

(* ------------------------- rasterizer properties ----------------------- *)

\* The cell of a layer definition at a zero-based row and column.
CellAt(def, r, c) == The(The(def.data)[r + 1])[c + 1]

Leaves(container) == container.children

AllLeaves == UNION {{<<k, i>> : i \in DOMAIN containers[k].children} : k \in DOMAIN containers}

Leaf(ref) == containers[ref[1]].children[ref[2]]

\* The tile index held by the cell a call or a warning of the rasterizer is about.
CellOf(entry) == CellAt(sortedLayers[entry.cell[1]], entry.cell[2], entry.cell[3])

\* C8: a cell holding 0 never produces a leaf element, never causes a call to
\* the mapping function or a texture lookup and never causes a diagnostic;
\* [[1,0,2],[0,3,0]] with keys "1", "2", "3" present yields exactly 3 leaves.
C8_ZeroIsEmpty ==
    /\ \A ref \in AllLeaves :
          /\ Leaf(ref).tileIndex # 0
          /\ CellAt(containers[ref[1]].src, Leaf(ref).cell[1], Leaf(ref).cell[2]) # Some(0)
    /\ \A i \in DOMAIN calls : CellOf(calls[i]) # Some(0)
    /\ \A i \in DOMAIN warnings :
          Len(warnings[i].cell) = 3 => CellOf(warnings[i]) # Some(0)
    /\ (pc = "done" /\ options = SkipExample) => Len(containers[1].children) = 3

C8_Witness ==
    /\ pc = "done"
    /\ options = SkipExample
    /\ Len(containers[1].children) = 3
    /\ Len(calls) = 3
    /\ warnings = <<>>

\* C9: every leaf created for the cell at (row, column) has x = column *
\* cellWidth and y = row * cellHeight, whatever the layer, the tile index, the
\* texture and the cells skipped before it.
C9_PositionFormula ==
    \A ref \in AllLeaves :
        /\ Leaf(ref).x = Leaf(ref).cell[2] * The(options.tileWidth)
        /\ Leaf(ref).y = Leaf(ref).cell[1] * The(options.tileHeight)

C9_Witness ==
    /\ options.tileWidth # options.tileHeight
    /\ \E ref \in AllLeaves :
          /\ Leaf(ref).cell = <<2, 2>>
          /\ CellAt(containers[ref[1]].src, 2, 0) = Some(0)
          /\ Leaf(ref).x = 2 * The(options.tileWidth)
          /\ Leaf(ref).y = 2 * The(options.tileHeight)

Positions(container) ==
    [i \in DOMAIN container.children |-> <<container.children[i].x, container.children[i].y>>]

RowMajorBefore(a, b) == a[1] < b[1] \/ (a[1] = b[1] /\ a[2] < b[2])

\* C10: within each layer container the leaves are in row-major creation
\* order: of two leaves the one from the smaller row, or from the same row and
\* the smaller column, comes first; [[1,2],[3,4]] with 32x32 cells yields the
\* positions (0,0), (32,0), (0,32), (32,32) in that order.
C10_RowMajorOrder ==
    /\ \A k \in DOMAIN containers :
          \A i, j \in DOMAIN containers[k].children :
              i < j => RowMajorBefore(containers[k].children[i].cell,
                                      containers[k].children[j].cell)
    /\ (pc = "done" /\ options = PositionExample) =>
          Positions(containers[1]) = <<<<0, 0>>, <<32, 0>>, <<0, 32>>, <<32, 32>>>>

C10_Witness ==
    /\ pc = "done"
    /\ options = PositionExample
    /\ Positions(containers[1]) = <<<<0, 0>>, <<32, 0>>, <<0, 32>>, <<32, 32>>>>

(* ------------------------- resolution properties ----------------------- *)

\* The zero-based (row, column) pairs of the cells a layer definition holds.
GridCells(def) ==
    IF def.data = Absent THEN {}
    ELSE UNION {{<<r, c>> : c \in 0..(Len(The(The(def.data)[r + 1])) - 1)} :
                r \in {q \in 0..(Len(The(def.data)) - 1) : The(def.data)[q + 1] # Absent}}

\* The cells that hold a present, non-zero tile index.
TileCells(def) ==
    {rc \in GridCells(def) : CellAt(def, rc[1], rc[2]) \notin {Absent, Some(0)}}

TileAt(def, rc) == The(CellAt(def, rc[1], rc[2]))

\* The decimal string form of the tile indices of the model.
DecimalOf(t) == <<"0", "1", "2", "3", "4", "5", "6", "7">>[t + 1]

\* What the configured mapping returns for a tile index: a string or null.
Mapped(t) == The(options.tileToIdTextureKey)[t]

\* The key a tile index is to be looked up under; a null return of the mapping
\* names the property "null".
ExpectedKey(t) ==
    IF options.tileToIdTextureKey = Absent
    THEN DecimalOf(t)
    ELSE IF Mapped(t) = Absent THEN "null" ELSE The(Mapped(t))

Textures == The(options.spriteSheet).textures

HasTexture(t) == ExpectedKey(t) \in DOMAIN Textures

\* Container k has been rasterized: _renderLayer has returned for it.
Completed(k) == k < layerIdx \/ (k = layerIdx /\ pc = "attach")

LeafCells(k) == {containers[k].children[i].cell : i \in DOMAIN containers[k].children}

InRowMajorOrder(k) ==
    \A i, j \in DOMAIN containers[k].children :
        i < j => RowMajorBefore(containers[k].children[i].cell,
                                containers[k].children[j].cell)

\* C11: every leaf element has width equal to the configured cellWidth and
\* height equal to the configured cellHeight, whatever its tile index and
\* texture; 64 and 48 for cellWidth = 64, cellHeight = 48.
C11_SizeOverride ==
    /\ \A ref \in AllLeaves :
          /\ Leaf(ref).width = The(options.tileWidth)
          /\ Leaf(ref).height = The(options.tileHeight)
    /\ options = SizeExample =>
          \A ref \in AllLeaves : Leaf(ref).width = 64 /\ Leaf(ref).height = 48

C11_Witness ==
    /\ pc = "done"
    /\ options = SizeExample
    /\ Len(containers[1].children) = 1
    /\ containers[1].children[1].width = 64
    /\ containers[1].children[1].height = 48

\* The layer definition with 0 in place of every tile index that has no texture.
Zeroed(def) ==
    IF def.data = Absent THEN def
    ELSE [def EXCEPT !.data =
            Some([r \in DOMAIN The(def.data) |->
                    IF The(def.data)[r] = Absent THEN Absent
                    ELSE Some([c \in DOMAIN The(The(def.data)[r]) |->
                            LET cell == The(The(def.data)[r])[c]
                            IN  IF cell \notin {Absent, Some(0)} /\ ~HasTexture(The(cell))
                                THEN Some(0)
                                ELSE cell])])]

\* The leaves of container k are those a layer definition calls for: one per
\* non-empty cell, in row-major order, with the cell's texture and position.
LeavesMatch(k, def) ==
    /\ LeafCells(k) = TileCells(def)
    /\ InRowMajorOrder(k)
    /\ \A i \in DOMAIN containers[k].children :
          LET leaf == containers[k].children[i]
          IN  /\ leaf.texture = Textures[ExpectedKey(TileAt(def, leaf.cell))]
              /\ leaf.x = leaf.cell[2] * The(options.tileWidth)
              /\ leaf.y = leaf.cell[1] * The(options.tileHeight)

HasMissingTexture(def) == \E rc \in TileCells(def) : ~HasTexture(TileAt(def, rc))

\* C12: a tile index whose key has no texture is recoverable: construction
\* does not throw, no leaf is added for that cell, and the leaves of every
\* layer (count, order, positions, textures) are those the configuration
\* yields with 0 in that cell.
C12_MissingTextureRecoverable ==
    /\ ViolatedRules(options) = {} => (pc # "thrown" /\ error = Absent)
    /\ \A k \in DOMAIN containers :
          Completed(k) => LeavesMatch(k, Zeroed(containers[k].src))

C12_Witness ==
    /\ pc = "done"
    /\ options = MissingExample
    /\ error = Absent
    /\ Positions(containers[1]) = <<<<0, 0>>, <<64, 0>>>>
    /\ Positions(containers[2]) = <<<<0, 32>>, <<64, 32>>>>

\* C13: for every cell holding a present, non-zero tile index a leaf is
\* created if and only if the computed key is a key of the sheet's textures,
\* and the leaf's texture is the one stored under that key; so a container has
\* as many leaves as its layer has non-empty cells whose key is in the sheet.
C13_LeafIffTexturePresent ==
    \A k \in DOMAIN containers :
        Completed(k) =>
            LET def == containers[k].src
            IN  /\ \A rc \in TileCells(def) :
                      rc \in LeafCells(k) <=> ExpectedKey(TileAt(def, rc)) \in DOMAIN Textures
                /\ \A i \in DOMAIN containers[k].children :
                      LET leaf == containers[k].children[i]
                      IN  /\ leaf.cell \in TileCells(def)
                          /\ leaf.texture = Textures[ExpectedKey(TileAt(def, leaf.cell))]
                /\ Len(containers[k].children) =
                      Cardinality({rc \in TileCells(def) : HasTexture(TileAt(def, rc))})

C13_Witness ==
    /\ pc = "done"
    /\ options.tileToIdTextureKey # Absent
    /\ options.spriteSheet = Some(PartialSheet)
    /\ containers[1].src.data = RaggedGrid
    /\ Len(containers[1].children) = 2
    /\ \A i \in 1..2 : containers[1].children[i].texture = PartialSheet.textures["custom_2"]

Lookups == {i \in DOMAIN calls : calls[i].fn = "textures"}

MappingCalls == {i \in DOMAIN calls : calls[i].fn = "tileToIdTextureKey"}

\* C14: the key of a non-empty cell is the decimal string of its tile index
\* when no custom mapping is configured (7 gives "7") and the value the custom
\* mapping returns for the tile index when one is configured (i => "custom_" +
\* i gives "custom_7"), never the default string then.
C14_KeyDefaultOrCustom ==
    /\ options.tileToIdTextureKey = Absent =>
          /\ MappingCalls = {}
          /\ \A i \in Lookups : calls[i].key = Some(DecimalOf(The(CellOf(calls[i]))))
          /\ \A i \in Lookups : CellOf(calls[i]) = Some(7) => calls[i].key = Some("7")
    /\ options.tileToIdTextureKey # Absent =>
          \A i \in Lookups :
              /\ calls[i].key = Mapped(The(CellOf(calls[i])))
              /\ i - 1 \in MappingCalls
              /\ calls[i - 1].tileIndex = The(CellOf(calls[i]))
              /\ calls[i - 1].cell = calls[i].cell
              /\ options.tileToIdTextureKey = Some(PrefixMapping("custom_")) =>
                    /\ calls[i].key # Some(DecimalOf(The(CellOf(calls[i]))))
                    /\ CellOf(calls[i]) = Some(7) => calls[i].key = Some("custom_7")

C14_Witness ==
    /\ pc = "done"
    /\ options.tileToIdTextureKey = Some(PrefixMapping("custom_"))
    /\ \E i \in Lookups : CellOf(calls[i]) = Some(7) /\ calls[i].key = Some("custom_7")

(* --------------------------- layers without grid ----------------------- *)

NoGrid(def) == def.data = Absent \/ Len(The(def.data)) = 0

\* The diagnostics and the calls made while layer k of the draw order was built.
WarningsOf(k) == {i \in DOMAIN warnings : warnings[i].cell # <<>> /\ warnings[i].cell[1] = k}

CallsOf(k) == {i \in DOMAIN calls : calls[i].cell[1] = k}

\* C15: a layer whose grid is absent or has zero rows is recoverable:
\* construction does not throw, exactly one warning is emitted for the layer,
\* none of its cells is rasterized, its container has no children and is
\* attached to the root at its sorted position, and the containers of the
\* other layers hold the leaves their own definitions call for.
C15_NoGridRecoverable ==
    /\ ViolatedRules(options) = {} => (pc # "thrown" /\ error = Absent)
    /\ \A k \in DOMAIN containers :
          Completed(k) =>
             IF NoGrid(containers[k].src)
             THEN /\ Cardinality(WarningsOf(k)) = 1
                  /\ \A i \in WarningsOf(k) :
                        warnings[i] = [message |-> "PixiTileGrid: Layer \""
                                                     \o containers[k].src.name
                                                     \o "\" has no tile data",
                                       cell |-> <<k>>]
                  /\ CallsOf(k) = {}
                  /\ containers[k].children = <<>>
                  /\ k < layerIdx => (k \in DOMAIN children /\ children[k] = k)
             ELSE /\ \A i \in WarningsOf(k) : Len(warnings[i].cell) = 3
                  /\ LeavesMatch(k, Zeroed(containers[k].src))
                  /\ k < layerIdx => (k \in DOMAIN children /\ children[k] = k)
    /\ pc = "done" =>
          /\ IsStableOrderOf(RootContainers, The(options.mapData))
          /\ options = NoDataExample =>
                /\ Labels(RootContainers) = <<"Layer: bg", "Layer: mid", "Layer: fg">>
                /\ Positions(containers[1]) = <<<<0, 0>>, <<32, 0>>>>
                /\ Positions(containers[2]) = <<>>
                /\ Positions(containers[3]) = <<<<0, 0>>>>

C15_Witness ==
    /\ pc = "done"
    /\ options = NoDataExample
    /\ error = Absent
    /\ Len(warnings) = 1
    /\ children = <<1, 2, 3>>
    /\ containers[2].children = <<>>
    /\ Len(containers[1].children) = 2

(* ----------------------------- reserved fields ------------------------- *)

Stored == pc \notin {"validate", "thrown"}

\* C16: a chunkSize that is not supplied is stored as 16 and a cullingMargin
\* that is not supplied as 2; a supplied value is stored exactly as supplied
\* (32 and 5 are stored as 32 and 5).
C16_ReservedDefaults ==
    Stored =>
        /\ options.chunkSize = Absent => _chunkSize = Some(16)
        /\ options.cullingMargin = Absent => _cullingMargin = Some(2)
        /\ options.chunkSize # Absent => _chunkSize = options.chunkSize
        /\ options.cullingMargin # Absent => _cullingMargin = options.cullingMargin
        /\ (options.chunkSize = Some(32) /\ options.cullingMargin = Some(5)) =>
              (_chunkSize = Some(32) /\ _cullingMargin = Some(5))

C16_Witness ==
    /\ pc = "done"
    /\ options.chunkSize = Some(32)
    /\ options.cullingMargin = Some(5)
    /\ _chunkSize = Some(32)
    /\ _cullingMargin = Some(5)

(* ------------------------------- outcomes ------------------------------ *)

\* The constructor has thrown: there is no instance.
ThrownOutcome ==
    /\ pc = "thrown"
    /\ error # Absent
    /\ NothingBuilt
    /\ tileWidth = Absent /\ tileHeight = Absent
    /\ _chunkSize = Absent /\ _cullingMargin = Absent

\* The constructor has returned with every layer and every cell built.
WholeTree ==
    /\ pc = "done"
    /\ error = Absent
    /\ sortableChildren
    /\ IsStableOrderOf(RootContainers, The(options.mapData))
    /\ \A k \in DOMAIN containers : LeavesMatch(k, Zeroed(containers[k].src))
    /\ \A name \in {The(options.mapData)[i].name : i \in DOMAIN The(options.mapData)} :
          name \in DOMAIN _layers

Stopped == ~ENABLED Next

\* C17: every construction ends in one of two outcomes, a thrown error with
\* nothing built or a returned instance whose whole tree is built: a
\* configuration that violates a fatal rule ends thrown, a validated one always
\* ends with the completed tree, and the build stops nowhere else.
C17_ThrownOrWholeTree ==
    /\ (ViolatedRules(options) # {}) ~> ThrownOutcome
    /\ (ViolatedRules(options) = {}) ~> WholeTree
    /\ [](Stopped => (ThrownOutcome \/ WholeTree))
    /\ [](~(ThrownOutcome /\ WholeTree))
    /\ [](pc = "thrown" => ThrownOutcome)
    /\ [](pc = "done" => WholeTree)

C17_Witness ==
    /\ WholeTree
    /\ options = MissingExample
    /\ Len(children) = 2
    /\ Len(containers[1].children) + Len(containers[2].children) = 4
    /\ Len(warnings) = 3

(* --------------------------------- holes ------------------------------- *)

\* The layer definition with 0 in place of every absent row entry.
HolesAsZero(def) ==
    IF def.data = Absent THEN def
    ELSE [def EXCEPT !.data =
            Some([r \in DOMAIN The(def.data) |->
                    IF The(def.data)[r] = Absent THEN Absent
                    ELSE Some([c \in DOMAIN The(The(def.data)[r]) |->
                            IF The(The(def.data)[r])[c] = Absent
                            THEN Some(0)
                            ELSE The(The(def.data)[r])[c]])])]

Holes(def) == {rc \in GridCells(def) : CellAt(def, rc[1], rc[2]) = Absent}

\* C18: an absent row entry is treated exactly like tile index 0: it produces
\* no leaf, causes no texture lookup and no call of the mapping function,
\* emits no diagnostic and does not make construction throw; the leaves of a
\* layer are those of the same grid with 0 in place of its holes.
C18_HoleIsEmpty ==
    /\ ViolatedRules(options) = {} => (pc # "thrown" /\ error = Absent)
    /\ \A ref \in AllLeaves :
          Leaf(ref).cell \notin Holes(containers[ref[1]].src)
    /\ \A i \in DOMAIN calls : CellOf(calls[i]) # Absent
    /\ \A i \in DOMAIN warnings :
          Len(warnings[i].cell) = 3 => CellOf(warnings[i]) # Absent
    /\ \A k \in DOMAIN containers :
          Completed(k) => LeavesMatch(k, HolesAsZero(Zeroed(containers[k].src)))

C18_Witness ==
    /\ pc = "done"
    /\ containers[1].src.data = RaggedGrid
    /\ Holes(containers[1].src) = {<<2, 1>>}
    /\ options.spriteSheet = Some(FullSheet)
    /\ Len(containers[1].children) = 3
    /\ Len(calls) = 3
    /\ warnings = <<>>

(* ------------------------------ ragged grids --------------------------- *)

RowLength(def, r) == Len(The(The(def.data)[r + 1]))

\* The (row, column) pairs a texture was looked up for while layer k was built.
LookedUp(k) == {<<calls[i].cell[2], calls[i].cell[3]>> : i \in CallsOf(k) \cap Lookups}

IsRagged(def) ==
    /\ def.data # Absent
    /\ \E r1, r2 \in DOMAIN The(def.data) :
          /\ The(def.data)[r1] # Absent
          /\ The(def.data)[r2] # Absent
          /\ Len(The(The(def.data)[r1])) # Len(The(The(def.data)[r2]))

\* C19: ragged grids are rasterized without error: the columns visited in a
\* row are exactly 0 .. (the row's own length - 1) whatever the lengths of the
\* other rows, so every non-empty cell of every row is looked up, and a cell
\* at column c is rendered at x = c * cellWidth also when other rows are
\* shorter than c.
C19_RaggedRows ==
    /\ ViolatedRules(options) = {} => (pc # "thrown" /\ error = Absent)
    /\ pc = "col" => col \in 0..RowLength(layerDef, row)
    /\ \A k \in DOMAIN containers :
          Completed(k) =>
             LET def == containers[k].src
             IN  /\ LookedUp(k) = TileCells(def)
                 /\ LeafCells(k) = {rc \in TileCells(def) : HasTexture(TileAt(def, rc))}
                 /\ \A i \in DOMAIN containers[k].children :
                       LET leaf == containers[k].children[i]
                       IN  /\ leaf.cell[2] < RowLength(def, leaf.cell[1])
                           /\ leaf.x = leaf.cell[2] * The(options.tileWidth)

C19_Witness ==
    /\ pc = "done"
    /\ containers[1].src.data = RaggedGrid
    /\ IsRagged(containers[1].src)
    /\ RowLength(containers[1].src, 0) = 2
    /\ options.tileWidth = Some(2)
    /\ \E i \in DOMAIN containers[1].children :
          /\ containers[1].children[i].cell = <<2, 2>>
          /\ containers[1].children[i].x = 4

(* ------------------------------ diagnostics ---------------------------- *)

\* The missing-texture diagnostics emitted while layer k was built.
MissingWarnings(k) == {i \in WarningsOf(k) : Len(warnings[i].cell) = 3}

WarnedCell(i) == <<warnings[i].cell[2], warnings[i].cell[3]>>

MissingCells(def) == {rc \in TileCells(def) : ~HasTexture(TileAt(def, rc))}

\* The text that names both the key and the tile index of a cell.
ExpectedDiagnostic(t) ==
    "PixiTileGrid: Texture not found for key \"" \o ExpectedKey(t)
        \o "\" (tile index: " \o DecimalOf(t) \o ")"

\* C20: missing-texture diagnostics match the cells without texture one for
\* one: over a whole construction exactly one is emitted per non-empty cell
\* whose key is not in the sheet, it names the computed key and the tile
\* index, and none is emitted for a cell that produced a leaf or is empty.
C20_OneDiagnosticPerMissingCell ==
    \A k \in DOMAIN containers :
        LET def == containers[k].src
        IN  /\ \A i, j \in MissingWarnings(k) : WarnedCell(i) = WarnedCell(j) => i = j
            /\ \A i \in MissingWarnings(k) :
                  /\ WarnedCell(i) \in MissingCells(def)
                  /\ WarnedCell(i) \notin LeafCells(k)
                  /\ warnings[i].message = ExpectedDiagnostic(TileAt(def, WarnedCell(i)))
            /\ Completed(k) =>
                  /\ {WarnedCell(i) : i \in MissingWarnings(k)} = MissingCells(def)
                  /\ Cardinality(MissingWarnings(k)) = Cardinality(MissingCells(def))

C20_Witness ==
    /\ pc = "done"
    /\ options = MissingExample
    /\ warnings =
         <<[message |-> "PixiTileGrid: Texture not found for key \"5\" (tile index: 5)",
            cell |-> <<1, 0, 1>>],
           [message |-> "PixiTileGrid: Texture not found for key \"5\" (tile index: 5)",
            cell |-> <<2, 0, 0>>],
           [message |-> "PixiTileGrid: Texture not found for key \"5\" (tile index: 5)",
            cell |-> <<2, 1, 1>>]>>

(* ---------------------------- degenerate keys -------------------------- *)

\* The cells of layer k a missing-texture diagnostic was emitted for.
WarnedCells(k) == {WarnedCell(i) : i \in MissingWarnings(k)}

\* C21: with a custom mapping configured its return value is the lookup key
\* of every non-empty cell, verbatim: each call of the mapping is followed by
\* the texture lookup with the value returned, also when that value is null or
\* the empty string, and the cell then either gets the texture found under
\* that key or is reported missing; construction does not throw.
C21_MappingResultVerbatim ==
    /\ ViolatedRules(options) = {} => (pc # "thrown" /\ error = Absent)
    /\ options.tileToIdTextureKey # Absent =>
          /\ \A i \in MappingCalls :
                /\ i + 1 \in Lookups
                /\ calls[i + 1].key = Mapped(calls[i].tileIndex)
                /\ calls[i + 1].cell = calls[i].cell
          /\ \A k \in DOMAIN containers :
                Completed(k) =>
                   LET def == containers[k].src
                   IN  /\ LookedUp(k) = TileCells(def)
                       /\ \A rc \in TileCells(def) :
                             IF ExpectedKey(TileAt(def, rc)) \in DOMAIN Textures
                             THEN rc \in LeafCells(k) /\ rc \notin WarnedCells(k)
                             ELSE rc \notin LeafCells(k) /\ rc \in WarnedCells(k)
                       /\ \A i \in DOMAIN containers[k].children :
                             containers[k].children[i].texture =
                                Textures[ExpectedKey(containers[k].children[i].tileIndex)]

C21_Witness ==
    /\ pc = "done"
    /\ error = Absent
    /\ options.tileToIdTextureKey = Some(DegenerateMapping)
    /\ options.spriteSheet = Some(NullSheet)
    /\ containers[1].src.data = RaggedGrid
    /\ Len(containers[1].children) = 1
    /\ containers[1].children[1].tileIndex = 1
    /\ containers[1].children[1].texture = NullSheet.textures["null"]
    /\ \E i \in Lookups : calls[i].key = Absent
    /\ \E i \in Lookups : calls[i].key = Some("")
    /\ Len(warnings) = 2
    /\ warnings[1].message = "PixiTileGrid: Texture not found for key \"\" (tile index: 2)"

(* --------------------------- build order properties ------------------- *)

ZIndexes(kids) == [i \in DOMAIN kids |-> kids[i].zIndex]

\* C22: the zIndex of each layer container equals the drawOrder of its layer
\* definition, and 0 when the definition has none, from the moment the
\* container is created; [fg:10, bg:-10, mid:0] gives -10, 0, 10.
C22_ContainerZIndex ==
    /\ \A k \in DOMAIN containers :
          /\ containers[k].src.zIndex # Absent =>
                containers[k].zIndex = The(containers[k].src.zIndex)
          /\ containers[k].src.zIndex = Absent => containers[k].zIndex = 0
    /\ (pc = "done" /\ options = SortExample) =>
          ZIndexes(RootContainers) = <<-10, 0, 10>>

C22_Witness ==
    /\ pc = "register"
    /\ options = TieExample
    /\ Len(containers) = 2
    /\ containers[1].zIndex = -10
    /\ containers[2].src.zIndex = Absent
    /\ containers[2].zIndex = 0
    /\ containers[2].children = <<>>

\* Every layer of the configuration has been rasterized and attached.
AllLayersAttached ==
    /\ options.mapData # Absent
    /\ Len(sortedLayers) = Len(The(options.mapData))
    /\ layerIdx > Len(sortedLayers)
    /\ Len(containers) = Len(sortedLayers)
    /\ children = [k \in 1..Len(sortedLayers) |-> k]

\* C23: sortableChildren is set only after every layer has been processed and
\* attached: it is not set while a layer is still unprocessed, and it is set
\* in every construction that has completed.
C23_SortableAfterAllLayers ==
    /\ sortableChildren => (AllLayersAttached /\ pc = "done")
    /\ pc = "done" => (sortableChildren /\ AllLayersAttached)
    /\ pc \in {"validate", "thrown", "sort", "register", "render", "row", "col", "attach"}
          => ~sortableChildren

C23_Witness ==
    /\ pc = "done"
    /\ options = SortExample
    /\ sortableChildren
    /\ Len(children) = 3
    /\ \A k \in 1..3 : Len(containers[k].children) = 1

Attached == {children[i] : i \in DOMAIN children}

InLayerBody == pc \in {"register", "render", "row", "col", "attach"}

\* The steps of the current layer done so far, by position in the loop body.
StepOrder ==
    /\ pc = "loop" =>
          /\ Len(containers) = layerIdx - 1
          /\ children = [k \in 1..(layerIdx - 1) |-> k]
    /\ InLayerBody =>
          /\ Len(containers) = layerIdx
          /\ containers[layerIdx].src = sortedLayers[layerIdx]
          /\ layerIdx \notin Attached
          /\ children = [k \in 1..(layerIdx - 1) |-> k]
    /\ pc = "register" =>
          /\ containers[layerIdx].children = <<>>
          /\ \A n \in DOMAIN _layers : _layers[n] # layerIdx
    /\ pc \in {"render", "row", "col", "attach"} =>
          /\ sortedLayers[layerIdx].name \in DOMAIN _layers
          /\ _layers[sortedLayers[layerIdx].name] = layerIdx
    /\ pc = "render" => containers[layerIdx].children = <<>>
    /\ \A k \in Attached : Completed(k) /\ LeavesMatch(k, Zeroed(containers[k].src))

\* A step changes no container that is a child of the root, and adds at most
\* one child to the root: the container of the current layer, at the end.
StepKeepsAttached ==
    /\ \A k \in Attached : k \in DOMAIN containers' /\ containers'[k] = containers[k]
    /\ children' # children =>
          /\ pc = "attach"
          /\ children' = Append(children, layerIdx)
          /\ Len(children') = layerIdx

\* C24: for each layer the steps happen in the order create container,
\* register by name, rasterize, append to the root; so every container that
\* is a child of the root is fully populated and never gets another leaf, and
\* the layers are attached one at a time in sorted order.
C24_CreateRegisterRenderAttach == [](StepOrder) /\ [][StepKeepsAttached]_vars

C24_Witness ==
    /\ pc = "col"
    /\ options = MissingExample
    /\ layerIdx = 2
    /\ row = 1
    /\ col = 1
    /\ children = <<1>>
    /\ Len(containers[1].children) = 2
    /\ Len(containers[2].children) = 1
    /\ _layers["fg"] = 2

(* ------------------------------ tree shape ----------------------------- *)

\* The sprites created so far: the lookups that found a texture, by the
\* layer, row and column they were made for.
Created ==
    {calls[i].cell : i \in {j \in Lookups :
                               ExpectedKey(The(CellOf(calls[j]))) \in DOMAIN Textures}}

\* The (container, row, column) triples of the leaves held by the containers.
Held == {<<ref[1], Leaf(ref).cell[1], Leaf(ref).cell[2]>> : ref \in AllLeaves}

\* C25: the output is a tree in every state of the build: each sprite created
\* is held once, by the container of the layer it was created for, and by no
\* other container nor by the root; each container is a child of the root at
\* most once, and exactly once when its layer has been processed.
C25_TreeShaped ==
    /\ Held = Created
    /\ Cardinality(AllLeaves) = Cardinality(Created)
    /\ \A i \in DOMAIN children : children[i] \in DOMAIN containers
    /\ \A i, j \in DOMAIN children : children[i] = children[j] => i = j
    /\ \A k \in DOMAIN containers :
          k < layerIdx => Cardinality({i \in DOMAIN children : children[i] = k}) = 1
    /\ Len(children) <= Len(containers)

C25_Witness ==
    /\ pc = "attach"
    /\ options = NoDataExample
    /\ layerIdx = 3
    /\ children = <<1, 2>>
    /\ Held = {<<1, 0, 0>>, <<1, 0, 1>>, <<3, 0, 0>>}

(* ------------------------------ name lookup ---------------------------- *)

ConfiguredNames == {The(options.mapData)[i].name : i \in DOMAIN The(options.mapData)}

\* The positions among the root's children of the layers called name.
PositionsNamed(name) == {i \in DOMAIN children : RootContainers[i].src.name = name}

LastNamed(name) ==
    CHOOSE i \in PositionsNamed(name) : \A j \in PositionsNamed(name) : j <= i

DistinctNames ==
    \A i, j \in DOMAIN The(options.mapData) :
        The(options.mapData)[i].name = The(options.mapData)[j].name => i = j

\* C26: after construction the name lookup holds, for every layer name of the
\* configuration, the container of the last layer of the draw order that has
\* the name; with distinct names it has one entry per layer, each the root
\* child built from that layer; a name collision neither makes construction
\* fail nor removes a container from the root.
C26_LastWriteWins ==
    /\ ViolatedRules(options) = {} => (pc # "thrown" /\ error = Absent)
    /\ pc = "done" =>
          /\ DOMAIN _layers = ConfiguredNames
          /\ \A name \in ConfiguredNames :
                /\ PositionsNamed(name) # {}
                /\ _layers[name] = children[LastNamed(name)]
          /\ DistinctNames =>
                /\ Cardinality(DOMAIN _layers) = Len(The(options.mapData))
                /\ \A i \in DOMAIN The(options.mapData) :
                      /\ _layers[The(options.mapData)[i].name] \in Attached
                      /\ containers[_layers[The(options.mapData)[i].name]].src
                            = The(options.mapData)[i]
          /\ Len(children) = Len(The(options.mapData))
          /\ IsStableOrderOf(RootContainers, The(options.mapData))

C26_Witness ==
    /\ pc = "done"
    /\ Len(The(options.mapData)) = 2
    /\ ~DistinctNames
    /\ The(options.mapData)[1].zIndex = Some(10)
    /\ The(options.mapData)[2].zIndex = Some(-10)
    /\ DOMAIN _layers = {"bg"}
    /\ _layers["bg"] = children[2]
    /\ containers[_layers["bg"]].src = The(options.mapData)[1]
    /\ Len(children) = 2

(* ---------------------------- reserved fields -------------------------- *)

\* A configuration without chunkSize and cullingMargin.
Relevant(o) ==
    [mapData |-> o.mapData, spriteSheet |-> o.spriteSheet,
     tileWidth |-> o.tileWidth, tileHeight |-> o.tileHeight,
     tileToIdTextureKey |-> o.tileToIdTextureKey]

\* The elements of a set of (row, column) pairs in row-major order.
RowMajorSeq(cells) ==
    CHOOSE s \in [1..Cardinality(cells) -> cells] :
        \A i, j \in DOMAIN s : i < j => RowMajorBefore(s[i], s[j])

\* The layers of cfg by ascending draw order, ties in input order.
OrderedLayers(cfg) ==
    LET mapData == The(cfg.mapData)
        p == CHOOSE q \in Injections(Len(mapData)) :
                \A i, j \in DOMAIN mapData :
                    i < j => \/ DrawOrder(mapData[q[i]]) < DrawOrder(mapData[q[j]])
                             \/ /\ DrawOrder(mapData[q[i]]) = DrawOrder(mapData[q[j]])
                                /\ q[i] < q[j]
    IN  [i \in DOMAIN mapData |-> mapData[p[i]]]

KeyOf(cfg, t) ==
    IF cfg.tileToIdTextureKey = Absent THEN DecimalOf(t)
    ELSE IF The(cfg.tileToIdTextureKey)[t] = Absent THEN "null"
    ELSE The(The(cfg.tileToIdTextureKey)[t])

Found(cfg, def) ==
    {rc \in TileCells(def) : KeyOf(cfg, TileAt(def, rc)) \in DOMAIN The(cfg.spriteSheet).textures}

ExpectedLeaf(cfg, def, rc) ==
    [texture |-> The(cfg.spriteSheet).textures[KeyOf(cfg, TileAt(def, rc))],
     x |-> rc[2] * The(cfg.tileWidth),
     y |-> rc[1] * The(cfg.tileHeight),
     width |-> The(cfg.tileWidth),
     height |-> The(cfg.tileHeight),
     cell |-> rc,
     tileIndex |-> TileAt(def, rc)]

\* The root's children a configuration calls for, as a function of cfg alone.
ExpectedTree(cfg) ==
    [k \in DOMAIN OrderedLayers(cfg) |->
        LET def == OrderedLayers(cfg)[k]
            cells == RowMajorSeq(Found(cfg, def))
        IN  [label |-> "Layer: " \o def.name,
             zIndex |-> DrawOrder(def),
             children |-> [i \in DOMAIN cells |-> ExpectedLeaf(cfg, def, cells[i])],
             src |-> def]]

\* The diagnostics of layer k of the draw order, as a function of cfg alone.
ExpectedWarningsOf(cfg, k) ==
    LET def == OrderedLayers(cfg)[k]
        cells == RowMajorSeq(TileCells(def) \ Found(cfg, def))
    IN  IF NoGrid(def)
        THEN <<[message |-> "PixiTileGrid: Layer \"" \o def.name \o "\" has no tile data",
                cell |-> <<k>>]>>
        ELSE [i \in DOMAIN cells |->
                [message |-> "PixiTileGrid: Texture not found for key \""
                                \o KeyOf(cfg, TileAt(def, cells[i]))
                                \o "\" (tile index: " \o DecimalOf(TileAt(def, cells[i])) \o ")",
                 cell |-> <<k, cells[i][1], cells[i][2]>>]]

RECURSIVE ExpectedWarnings(_, _)
ExpectedWarnings(cfg, n) ==
    IF n = 0 THEN <<>> ELSE ExpectedWarnings(cfg, n - 1) \o ExpectedWarningsOf(cfg, n)

\* C27: chunkSize and cullingMargin have no effect on the output: the
\* container tree (layer order, leaves, positions, sizes, textures) and the
\* diagnostics of a completed construction are determined by the
\* configuration without these two fields, so configurations that differ only
\* in them yield the same tree and the same diagnostics.
C27_ReservedFieldsNoEffect ==
    pc = "done" =>
        /\ RootContainers = ExpectedTree(Relevant(options))
        /\ warnings = ExpectedWarnings(Relevant(options), Len(The(options.mapData)))

C27_Witness ==
    /\ pc = "done"
    /\ options.chunkSize = Some(0)
    /\ options.cullingMargin = Some(5)
    /\ _chunkSize = Some(0)
    /\ options.spriteSheet = Some(PartialSheet)
    /\ options.tileToIdTextureKey = Absent
    /\ containers[1].src.data = RaggedGrid
    /\ Len(containers[1].children) = 1
    /\ Len(warnings) = 2
    /\ RootContainers = ExpectedTree(Relevant(options))

(* ------------------------------ frame effects -------------------------- *)

\* C28: the texture source is only read: in every step of a construction,
\* one that throws or one that builds, the sheet behind the step is the sheet
\* before it, with the same keys bound to the same textures, also when the
\* step is a lookup that misses.
C28_SheetOnlyRead == [][options'.spriteSheet = options.spriteSheet]_vars

C28_Witness ==
    /\ pc = "done"
    /\ options.spriteSheet = Some(PartialSheet)
    /\ DOMAIN Textures = {"1", "custom_2"}
    /\ \E i \in Lookups : ToPropertyKey(calls[i].key) \notin DOMAIN Textures
    /\ \E i \in Lookups : ToPropertyKey(calls[i].key) \in DOMAIN Textures
    /\ warnings # <<>>

\* C29: sorting does not touch the caller's data: no step changes the layer
\* list of the configuration, so after construction it has the length and the
\* element order it had, and every layer definition its name, drawOrder and
\* grid; the draw-order sort works on a copy.
C29_MapDataUntouched == [][options'.mapData = options.mapData]_vars

C29_Witness ==
    /\ pc = "done"
    /\ options = SortExample
    /\ sortedLayers # The(options.mapData)
    /\ The(options.mapData)[1].name = "fg"
    /\ sortedLayers[1].name = "bg"
    /\ Labels(RootContainers) = <<"Layer: bg", "Layer: mid", "Layer: fg">>

(* ------------------------------ absent rows ---------------------------- *)

AbsentRows(def) ==
    IF def.data = Absent THEN {}
    ELSE {r \in 0..(Len(The(def.data)) - 1) : The(def.data)[r + 1] = Absent}

\* C30: a row that is absent from a layer's grid is skipped without error: no
\* leaf, no lookup and no diagnostic stems from it, and the rows behind it
\* are rasterized at y = their own row index * cellHeight.
C30_AbsentRowSkipped ==
    /\ ViolatedRules(options) = {} => (pc # "thrown" /\ error = Absent)
    /\ \A ref \in AllLeaves :
          /\ Leaf(ref).cell[1] \notin AbsentRows(containers[ref[1]].src)
          /\ Leaf(ref).y = Leaf(ref).cell[1] * The(options.tileHeight)
    /\ \A i \in DOMAIN calls : calls[i].cell[2] \notin AbsentRows(sortedLayers[calls[i].cell[1]])
    /\ \A i \in DOMAIN warnings :
          Len(warnings[i].cell) = 3 =>
             warnings[i].cell[2] \notin AbsentRows(sortedLayers[warnings[i].cell[1]])
    /\ \A k \in DOMAIN containers :
          Completed(k) =>
             /\ LeavesMatch(k, Zeroed(containers[k].src))
             /\ WarnedCells(k) = MissingCells(containers[k].src)

C30_Witness ==
    /\ pc = "done"
    /\ containers[1].src.data = RaggedGrid
    /\ AbsentRows(containers[1].src) = {1}
    /\ options.spriteSheet = Some(FullSheet)
    /\ options.tileToIdTextureKey = Absent
    /\ options.tileHeight = Some(2)
    /\ warnings = <<>>
    /\ \E i \in DOMAIN containers[1].children :
          /\ containers[1].children[i].cell = <<2, 2>>
          /\ containers[1].children[i].y = 4

====
